---- MODULE Spec2Model ----
(***************************************************************************)
(* Model of js/sanitizer.js: the text normalizer (sanitizeTextContent),    *)
(* the markup pipeline (sanitizeHtmlPreservingFormatting), the highlight   *)
(* overlay on the live editor tree (clearHighlightsInEditor,               *)
(* highlightProblemCharsInEditor, scheduleHighlight) and the handlers      *)
(* wired to them.                                                          *)
(*                                                                         *)
(* A character is a string: an ASCII character stands for itself, another  *)
(* character is named ("ZWSP" is U+200B, "EM" is U+2014, ...).  A text is  *)
(* a sequence of characters.                                               *)
(***************************************************************************)
EXTENDS Integers, Sequences, FiniteSets, TLC

VARIABLES
  tree,            \* quill.root.childNodes: the live editor tree
  opts,            \* the five checkboxes read through `options`
  domPurify,       \* whether window.DOMPurify is defined
  highlightTimer,  \* the handle kept by scheduleHighlight (0 is null)
  timers,          \* the browser's active timers set by scheduleHighlight
  requests,        \* history: scheduleHighlight calls since the last pass
  plain,           \* history: the text of the tree as last edited
  output,          \* outputDiv.innerHTML
  clipboard,       \* what the last successful copy placed on the clipboard
  text,            \* an argument of sanitizeTextContent
  once,            \* sanitizeTextContent(text, opts)
  twice,           \* sanitizeTextContent(once, opts)
  html,            \* a serialized body handed to the structural rules
  walked,          \* the parsed body after the text walk of lines 318-328
  cleanedHtml,     \* the structural rules applied to html
  recleanedHtml,   \* the structural rules applied to cleanedHtml
  restrictedHtml,  \* what sanitizeHtmlPreservingFormatting returns for html
  stage            \* position of the function harnesses

vars == <<tree, opts, domPurify, highlightTimer, timers, requests, plain, output,
          clipboard, text, once, twice, html, walked, cleanedHtml, recleanedHtml,
          restrictedHtml, stage>>

overlayVars == <<tree, highlightTimer, timers, requests, plain>>
textVars == <<text, once, twice>>
markupVars == <<html, walked, cleanedHtml, recleanedHtml, restrictedHtml>>

-----------------------------------------------------------------------------
(* Bounds of the model *)

MaxText == 3
MaxLeaf == 2
MaxTop == 3
MaxTimers == 2
MaxRequests == 2

-----------------------------------------------------------------------------
(* Character classes, from the regular expressions of the source *)

ZeroWidthChars == {"ZWSP", "ZWNJ", "ZWJ", "BOM"}

BidiRemovedChars == {"LRE", "RLE", "PDF", "LRO", "RLO", "LRI", "RLI", "FSI", "PDI"}

BidiHighlightChars == BidiRemovedChars \cup {"LRM", "RLM"}

NbspChars == {"NBSP", "NNBSP"}

OtherDashChars ==
  {"U2010", "U2011", "U2012", "EN", "U2015", "MINUS", "UFE63", "UFF0D", "U30FC",
   "U2043", "U2E3A", "U2E3B"}

\* what \s matches in a JavaScript regular expression, among the characters used
WhiteSpace == {" ", "TAB", "LF", "CR", "NBSP", "NNBSP", "BOM"}

\* what \w matches, among the characters used
WordChars ==
  {"a", "b", "c", "d", "e", "f", "g", "h", "i", "j", "k", "l", "m", "n", "o", "p",
   "q", "r", "s", "t", "u", "v", "w", "x", "y", "z",
   "A", "B", "C", "D", "E", "F", "G", "H", "I", "J", "K", "L", "M", "N", "O", "P",
   "Q", "R", "S", "T", "U", "V", "W", "X", "Y", "Z",
   "0", "1", "2", "3", "4", "5", "6", "7", "8", "9", "_"}

\* characters whose charCodeAt(0) is above 127
NonAsciiChars ==
  ZeroWidthChars \cup BidiHighlightChars \cup NbspChars \cup OtherDashChars
    \cup {"EM", "ACUTE", "EACUTE", "SACUTE"}

-----------------------------------------------------------------------------
(* The text normalizer *)

\* String.prototype.normalize('NFC') on the characters used: a base letter
\* followed by U+0301 composes when a precomposed letter exists.
Composed(base) ==
  CASE base = "e" -> "EACUTE"
    [] base = "s" -> "SACUTE"
    [] OTHER -> ""

RECURSIVE NFCFrom(_, _)
NFCFrom(s, i) ==
  IF i > Len(s) THEN <<>>
  ELSE IF i < Len(s) /\ s[i + 1] = "ACUTE" /\ Composed(s[i]) # ""
       THEN <<Composed(s[i])>> \o NFCFrom(s, i + 2)
       ELSE <<s[i]>> \o NFCFrom(s, i + 1)

NFC(s) == NFCFrom(s, 1)

\* text.replace(/[set]/g, '')
DeleteChars(s, set) == SelectSeq(s, LAMBDA c : c \notin set)

\* text.replace(/[set]/g, to)
MapChars(s, set, to) == [i \in 1..Len(s) |-> IF s[i] \in set THEN to ELSE s[i]]

\* the first index >= i of s that holds no white space (Len(s) + 1 if none)
RECURSIVE SkipSpace(_, _)
SkipSpace(s, i) ==
  IF i <= Len(s) /\ s[i] \in WhiteSpace THEN SkipSpace(s, i + 1) ELSE i

\* text.replace(/\s*—\s*/g, '; ')
RECURSIVE EmDashFrom(_, _)
EmDashFrom(s, i) ==
  IF i > Len(s) THEN <<>>
  ELSE LET j == SkipSpace(s, i) IN
       IF j <= Len(s) /\ s[j] = "EM"
       THEN <<";", " ">> \o EmDashFrom(s, SkipSpace(s, j + 1))
       ELSE <<s[i]>> \o EmDashFrom(s, i + 1)

\* the em dash rule written as /—/g: the white space around it is kept
ReplaceEmDashOnly(s) ==
  IF s = <<>> THEN <<>>
  ELSE LET F[i \in 0..Len(s)] ==
             IF i = 0 THEN <<>>
             ELSE F[i - 1] \o (IF s[i] = "EM" THEN <<";", " ">> ELSE <<s[i]>>)
       IN  F[Len(s)]

ReplaceEmDash(s) == EmDashFrom(s, 1)

\* text.replace(/;\s+/g, '; ')
RECURSIVE SemicolonFrom(_, _)
SemicolonFrom(s, i) ==
  IF i > Len(s) THEN <<>>
  ELSE IF s[i] = ";" /\ SkipSpace(s, i + 1) > i + 1
       THEN <<";", " ">> \o SemicolonFrom(s, SkipSpace(s, i + 1))
       ELSE <<s[i]>> \o SemicolonFrom(s, i + 1)

OneSpaceAfterSemicolon(s) == SemicolonFrom(s, 1)

\* A pattern of LATIN_ABBREVIATIONS is a sequence of character sets (the
\* alternatives at each position, both cases under the i flag); all start with \b.
Both(lower, upper) == {lower, upper}

LATIN_ABBREVIATIONS ==
  << [pattern |-> <<{"e", "E"}, {"."}, {"g"}, {"."}>>,
      replacement |-> <<"f", "o", "r", " ", "e", "x", "a", "m", "p", "l", "e">>],
     [pattern |-> <<{"i", "I"}, {"."}, {"e"}, {"."}>>,
      replacement |-> <<"t", "h", "a", "t", " ", "i", "s">>],
     [pattern |-> <<Both("e", "E"), Both("t", "T"), Both("c", "C"), {"."}>>,
      replacement |-> <<"a", "n", "d", " ", "s", "o", " ", "o", "n">>],
     [pattern |-> <<Both("v", "V"), Both("s", "S"), {"."}>>,
      replacement |-> <<"v", "e", "r", "s", "u", "s">>],
     [pattern |-> <<Both("c", "C"), Both("f", "F"), {"."}>>,
      replacement |-> <<"c", "o", "m", "p", "a", "r", "e">>],
     [pattern |-> <<Both("e", "E"), Both("t", "T"), {" "}, Both("a", "A"),
                    Both("l", "L"), {"."}>>,
      replacement |-> <<"a", "n", "d", " ", "o", "t", "h", "e", "r", "s">>] >>

\* the pattern matches s at i, after a word boundary
MatchesAt(s, i, pattern) ==
  /\ i + Len(pattern) - 1 <= Len(s)
  /\ \A k \in 1..Len(pattern) : s[i + k - 1] \in pattern[k]
  /\ (i = 1 \/ s[i - 1] \notin WordChars)

\* text.replace(pattern, replacement) with the g flag
RECURSIVE ReplaceFrom(_, _, _, _)
ReplaceFrom(s, i, pattern, replacement) ==
  IF i > Len(s) THEN <<>>
  ELSE IF MatchesAt(s, i, pattern)
       THEN replacement \o ReplaceFrom(s, i + Len(pattern), pattern, replacement)
       ELSE <<s[i]>> \o ReplaceFrom(s, i + 1, pattern, replacement)

\* LATIN_ABBREVIATIONS.forEach(...), entries k..6 in order
RECURSIVE ExpandFrom(_, _)
ExpandFrom(s, k) ==
  IF k > Len(LATIN_ABBREVIATIONS) THEN s
  ELSE ExpandFrom(ReplaceFrom(s, 1, LATIN_ABBREVIATIONS[k].pattern,
                              LATIN_ABBREVIATIONS[k].replacement), k + 1)

ExpandAbbreviations(s) == ExpandFrom(s, 1)

\* a normalizer whose bidi rule reads the flag of the zero-width rule
sanitizeTextContentSharedFlag(t, o) ==
  LET t1 == NFC(t)
      t2 == IF o.removeZeroWidth THEN DeleteChars(t1, ZeroWidthChars) ELSE t1
      t3 == IF o.removeZeroWidth THEN DeleteChars(t2, BidiRemovedChars) ELSE t2
      t4 == IF o.normalizeSpaces THEN MapChars(t3, NbspChars, " ") ELSE t3
      t5 == OneSpaceAfterSemicolon(ReplaceEmDash(t4))
      t6 == MapChars(t5, OtherDashChars, "-")
  IN  IF o.expandLatinAbbrev THEN ExpandAbbreviations(t6) ELSE t6

sanitizeTextContent(t, o) ==
  LET t1 == NFC(t)
      t2 == IF o.removeZeroWidth THEN DeleteChars(t1, ZeroWidthChars) ELSE t1
      t3 == IF o.removeBidi THEN DeleteChars(t2, BidiRemovedChars) ELSE t2
      t4 == IF o.normalizeSpaces THEN MapChars(t3, NbspChars, " ") ELSE t3
      t5 == OneSpaceAfterSemicolon(ReplaceEmDash(t4))
      t6 == MapChars(t5, OtherDashChars, "-")
  IN  IF o.expandLatinAbbrev THEN ExpandAbbreviations(t6) ELSE t6

-----------------------------------------------------------------------------
(* The document tree: a node is a text node (data) or an element (tag,     *)
(* class, title, other attribute names, child nodes)                       *)

TextNode(s) ==
  [kind |-> "text", tag |-> "#text", cls |-> "", title |-> "", attrs |-> {},
   data |-> s, kids |-> <<>>]

Element(tagName, className, titleText, attrNames, childNodes) ==
  [kind |-> "elem", tag |-> tagName, cls |-> className, title |-> titleText,
   attrs |-> attrNames, data |-> <<>>, kids |-> childNodes]

HighlightClass == "highlight-invisible"

IsMarker(n) == n.kind = "elem" /\ n.cls = HighlightClass

\* Node.textContent
RECURSIVE textContent(_)
RECURSIVE TextOfNodes(_)
textContent(n) == IF n.kind = "text" THEN n.data ELSE TextOfNodes(n.kids)
TextOfNodes(ns) == IF ns = <<>> THEN <<>> ELSE textContent(Head(ns)) \o TextOfNodes(Tail(ns))

\* querySelectorAll('.highlight-invisible') lists the markers in document order,
\* an outer marker before the markers inside it; each span.replaceWith(text)
\* puts a text node holding span.textContent in its place.  A marker inside an
\* already replaced marker is replaced in the detached subtree only, so what is
\* left in the tree is every outermost marker turned into one text node.
RECURSIVE StripMarkers(_)
StripMarkers(ns) ==
  [i \in 1..Len(ns) |->
     IF IsMarker(ns[i]) THEN TextNode(textContent(ns[i]))
     ELSE IF ns[i].kind = "elem" THEN [ns[i] EXCEPT !.kids = StripMarkers(ns[i].kids)]
     ELSE ns[i]]

\* a clearing that replaces the markers among the children of the root only
clearTopLevelOnly(root) ==
  [i \in 1..Len(root) |->
     IF IsMarker(root[i]) THEN TextNode(textContent(root[i])) ELSE root[i]]

clearHighlightsInEditor(root) == StripMarkers(root)

\* the character class of the fast skip test
SuspiciousChars == ZeroWidthChars \cup BidiHighlightChars \cup NbspChars \cup {"EM"}

HasSuspicious(s) == \E i \in 1..Len(s) : s[i] \in SuspiciousChars

\* the labels chosen without reading the options
LabelOfUngated(ch, o) ==
  IF ch \in ZeroWidthChars THEN "Zero-width character"
  ELSE IF ch \in BidiHighlightChars THEN "BiDi / Direction marker"
  ELSE IF ch \in NbspChars THEN "Non-breaking space"
  ELSE IF ch = "EM" THEN "EM DASH (will become '; ' )"
  ELSE IF ch \in NonAsciiChars THEN "Non-ASCII character"
  ELSE ""

\* the label chosen for one character ("" is null)
LabelOf(ch, o) ==
  IF o.removeZeroWidth /\ ch \in ZeroWidthChars THEN "Zero-width character"
  ELSE IF o.removeBidi /\ ch \in BidiHighlightChars THEN "BiDi / Direction marker"
  ELSE IF o.normalizeSpaces /\ ch \in NbspChars THEN "Non-breaking space"
  ELSE IF ch = "EM" THEN "EM DASH (will become '; ' )"
  ELSE IF ch \in NonAsciiChars THEN "Non-ASCII character"
  ELSE ""

MarkerNode(ch, label) == Element("span", HighlightClass, label, {}, <<TextNode(<<ch>>)>>)

\* a fragment that keeps the flagged characters only
FragmentOfFlagged(s, o) ==
  LET flagged == SelectSeq(s, LAMBDA c : LabelOf(c, o) # "")
  IN  [i \in 1..Len(flagged) |-> MarkerNode(flagged[i], LabelOf(flagged[i], o))]

\* the fragment built for one text node: one node per character
Fragment(s, o) ==
  [i \in 1..Len(s) |->
     IF LabelOf(s[i], o) # "" THEN MarkerNode(s[i], LabelOf(s[i], o))
     ELSE TextNode(<<s[i]>>)]

\* ns with the node at k replaced by the nodes of frag
Splice(ns, k, frag) == SubSeq(ns, 1, k - 1) \o frag \o SubSeq(ns, k + 1, Len(ns))

\* walk(node): childNodes.forEach is Array.prototype.forEach on the live list.  It
\* reads the length once (len), then visits index k of the list as it is at that
\* moment, while child.replaceWith(frag) grows the list under it.
RECURSIVE WalkFrom(_, _, _, _)
WalkFrom(ns, k, len, o) ==
  IF k > len \/ k > Len(ns) THEN ns
  ELSE LET child == ns[k] IN
       IF child.kind = "text"
       THEN IF ~HasSuspicious(child.data) THEN WalkFrom(ns, k + 1, len, o)
            ELSE WalkFrom(Splice(ns, k, Fragment(child.data, o)), k + 1, len, o)
       ELSE WalkFrom([ns EXCEPT ![k] = [child EXCEPT !.kids =
                         WalkFrom(child.kids, 1, Len(child.kids), o)]],
                     k + 1, len, o)

highlightWalk(root, o) == WalkFrom(root, 1, Len(root), o)

\* a pass that marks the tree without clearing the markers of the pass before
highlightWithoutClear(root, o) == highlightWalk(root, o)

highlightProblemCharsInEditor(root, o) == highlightWalk(clearHighlightsInEditor(root), o)

-----------------------------------------------------------------------------
(* Markup: a serialized tree is a sequence of tokens, a start tag with its *)
(* attributes, an end tag, or one character of text                        *)

VoidTags == {"br"}

StartTag(n) == [k |-> "open", name |-> n.tag, cls |-> n.cls, title |-> n.title, attrs |-> n.attrs]
EndTag(tagName) == [k |-> "close", name |-> tagName, cls |-> "", title |-> "", attrs |-> {}]
CharToken(ch) == [k |-> "char", name |-> ch, cls |-> "", title |-> "", attrs |-> {}]

\* Element.innerHTML (get)
RECURSIVE innerHTML(_)
RECURSIVE outerHTML(_)
outerHTML(n) ==
  IF n.kind = "text" THEN [i \in 1..Len(n.data) |-> CharToken(n.data[i])]
  ELSE IF n.tag \in VoidTags THEN <<StartTag(n)>>
  ELSE <<StartTag(n)>> \o innerHTML(n.kids) \o <<EndTag(n.tag)>>
innerHTML(ns) == IF ns = <<>> THEN <<>> ELSE outerHTML(Head(ns)) \o innerHTML(Tail(ns))

\* the first index >= i of toks that holds no character token
RECURSIVE SkipChars(_, _)
SkipChars(toks, i) ==
  IF i <= Len(toks) /\ toks[i].k = "char" THEN SkipChars(toks, i + 1) ELSE i

\* DOMParser.parseFromString on well-nested markup: the child nodes read from
\* index i up to the end tag that closes them; a run of characters is one text node
RECURSIVE ParseFrom(_, _)
ParseFrom(toks, i) ==
  IF i > Len(toks) \/ toks[i].k = "close" THEN [kids |-> <<>>, next |-> i]
  ELSE IF toks[i].k = "char"
       THEN LET j == SkipChars(toks, i)
                rest == ParseFrom(toks, j)
            IN  [kids |-> <<TextNode([x \in 1..(j - i) |-> toks[i + x - 1].name])>> \o rest.kids,
                 next |-> rest.next]
       ELSE LET t == toks[i] IN
            IF t.name \in VoidTags
            THEN LET rest == ParseFrom(toks, i + 1)
                 IN  [kids |-> <<Element(t.name, t.cls, t.title, t.attrs, <<>>)>> \o rest.kids,
                      next |-> rest.next]
            ELSE LET inner == ParseFrom(toks, i + 1)
                     rest == ParseFrom(toks, inner.next + 1)
                 IN  [kids |-> <<Element(t.name, t.cls, t.title, t.attrs, inner.kids)>>
                                 \o rest.kids,
                      next |-> rest.next]

parseFromString(toks) == ParseFrom(toks, 1).kids

\* a walk that rewrites the text children of the body and does not descend
sanitizeWalkTopLevel(ns, o) ==
  [i \in 1..Len(ns) |->
     IF ns[i].kind = "text" THEN TextNode(sanitizeTextContent(ns[i].data, o))
     ELSE ns[i]]

\* walk(doc.body) of sanitizeHtmlPreservingFormatting
RECURSIVE sanitizeWalk(_, _)
sanitizeWalk(ns, o) ==
  [i \in 1..Len(ns) |->
     IF ns[i].kind = "text" THEN TextNode(sanitizeTextContent(ns[i].data, o))
     ELSE [ns[i] EXCEPT !.kids = sanitizeWalk(ns[i].kids, o)]]

-----------------------------------------------------------------------------
(* The structural rules of sanitizeHtmlPreservingFormatting, on tokens.    *)
(* Text holds no raw '<' or '>' (innerHTML escapes them), so a '>' or a '<' *)
(* of the string is the edge of a tag token.                               *)

\* \s on the serialized string: innerHTML writes U+00A0 as the entity &nbsp;
MarkupSpace == WhiteSpace \ {"NBSP"}

IsSpaceToken(t) == t.k = "char" /\ t.name \in MarkupSpace

IsChar(t, ch) == t.k = "char" /\ t.name = ch

\* a tag written without attributes, as the literal <p>, </p> or <br> of a pattern
IsBareTag(t, kind, tagName) ==
  t.k = kind /\ t.name = tagName /\ t.cls = "" /\ t.title = "" /\ t.attrs = {}

RECURSIVE SkipSpaceTokens(_, _)
SkipSpaceTokens(toks, i) ==
  IF i <= Len(toks) /\ IsSpaceToken(toks[i]) THEN SkipSpaceTokens(toks, i + 1) ELSE i

\* .replace(/\r\n/g, '\n')
RECURSIVE CrLfFrom(_, _)
CrLfFrom(toks, i) ==
  IF i > Len(toks) THEN <<>>
  ELSE IF IsChar(toks[i], "CR") /\ i < Len(toks) /\ IsChar(toks[i + 1], "LF")
       THEN <<CharToken("LF")>> \o CrLfFrom(toks, i + 2)
       ELSE <<toks[i]>> \o CrLfFrom(toks, i + 1)

\* .replace(/\r/g, '\n')
CrToLf(toks) == [i \in 1..Len(toks) |-> IF IsChar(toks[i], "CR") THEN CharToken("LF") ELSE toks[i]]

RECURSIVE SkipLf(_, _)
SkipLf(toks, i) == IF i <= Len(toks) /\ IsChar(toks[i], "LF") THEN SkipLf(toks, i + 1) ELSE i

\* .replace(/\n{3,}/g, '\n\n')
RECURSIVE BlankLinesFrom(_, _)
BlankLinesFrom(toks, i) ==
  IF i > Len(toks) THEN <<>>
  ELSE IF SkipLf(toks, i) >= i + 3
       THEN <<CharToken("LF"), CharToken("LF")>> \o BlankLinesFrom(toks, SkipLf(toks, i))
       ELSE <<toks[i]>> \o BlankLinesFrom(toks, i + 1)

CollapseBlankLines(toks) == BlankLinesFrom(CrToLf(CrLfFrom(toks, 1)), 1)

\* .replace(/>\s+</g, '><')
RECURSIVE BetweenTagsFrom(_, _)
BetweenTagsFrom(toks, i) ==
  IF i > Len(toks) THEN <<>>
  ELSE LET j == SkipSpaceTokens(toks, i + 1) IN
       IF toks[i].k # "char" /\ j > i + 1 /\ j <= Len(toks) /\ toks[j].k # "char"
       THEN <<toks[i]>> \o BetweenTagsFrom(toks, j)
       ELSE <<toks[i]>> \o BetweenTagsFrom(toks, i + 1)

RemoveSpaceBetweenTags(toks) == BetweenTagsFrom(toks, 1)

\* the repetitions of (<br\s*\/?>\s*) that start at i, and where they end
RECURSIVE BrRun(_, _)
BrRun(toks, i) ==
  IF i <= Len(toks) /\ IsBareTag(toks[i], "open", "br")
  THEN LET r == BrRun(toks, SkipSpaceTokens(toks, i + 1))
       IN  [count |-> r.count + 1, next |-> r.next]
  ELSE [count |-> 0, next |-> i]

BrToken == [k |-> "open", name |-> "br", cls |-> "", title |-> "", attrs |-> {}]
POpen == [k |-> "open", name |-> "p", cls |-> "", title |-> "", attrs |-> {}]
PClose == EndTag("p")

\* .replace(/(<br\s*\/?>\s*){2,}/gi, '<br>')
RECURSIVE BrRunsFrom(_, _)
BrRunsFrom(toks, i) ==
  IF i > Len(toks) THEN <<>>
  ELSE IF BrRun(toks, i).count >= 2
       THEN <<BrToken>> \o BrRunsFrom(toks, BrRun(toks, i).next)
       ELSE <<toks[i]>> \o BrRunsFrom(toks, i + 1)

CollapseBrRuns(toks) == BrRunsFrom(toks, 1)

\* .replace(/<p><br><\/p>/gi, '<p></p>')
RECURSIVE BlankParagraphFrom(_, _)
BlankParagraphFrom(toks, i) ==
  IF i > Len(toks) THEN <<>>
  ELSE IF /\ i + 2 <= Len(toks)
          /\ IsBareTag(toks[i], "open", "p")
          /\ IsBareTag(toks[i + 1], "open", "br")
          /\ IsBareTag(toks[i + 2], "close", "p")
       THEN <<POpen, PClose>> \o BlankParagraphFrom(toks, i + 3)
       ELSE <<toks[i]>> \o BlankParagraphFrom(toks, i + 1)

NormalizeBlankParagraphs(toks) == BlankParagraphFrom(toks, 1)

\* where a match of <p>\s*<\/p> that starts at i ends (i itself if there is none)
EmptyParagraphEnd(toks, i) ==
  IF i <= Len(toks) /\ IsBareTag(toks[i], "open", "p")
  THEN LET j == SkipSpaceTokens(toks, i + 1) IN
       IF j <= Len(toks) /\ IsBareTag(toks[j], "close", "p") THEN j + 1 ELSE i
  ELSE i

\* .replace(/<p>\s*<\/p>/gi, '')
RECURSIVE EmptyParagraphFrom(_, _)
EmptyParagraphFrom(toks, i) ==
  IF i > Len(toks) THEN <<>>
  ELSE IF EmptyParagraphEnd(toks, i) > i
       THEN EmptyParagraphFrom(toks, EmptyParagraphEnd(toks, i))
       ELSE <<toks[i]>> \o EmptyParagraphFrom(toks, i + 1)

RemoveEmptyParagraphs(toks) == EmptyParagraphFrom(toks, 1)

\* the repetitions of (<p>\s*<\/p>) that start at i, and where they end
RECURSIVE EmptyParagraphRun(_, _)
EmptyParagraphRun(toks, i) ==
  IF EmptyParagraphEnd(toks, i) > i
  THEN LET r == EmptyParagraphRun(toks, EmptyParagraphEnd(toks, i))
       IN  [count |-> r.count + 1, next |-> r.next]
  ELSE [count |-> 0, next |-> i]

\* .replace(/(<p>\s*<\/p>){2,}/gi, '<p></p>')
RECURSIVE EmptyRunsFrom(_, _)
EmptyRunsFrom(toks, i) ==
  IF i > Len(toks) THEN <<>>
  ELSE IF EmptyParagraphRun(toks, i).count >= 2
       THEN <<POpen, PClose>> \o EmptyRunsFrom(toks, EmptyParagraphRun(toks, i).next)
       ELSE <<toks[i]>> \o EmptyRunsFrom(toks, i + 1)

CollapseEmptyParagraphs(toks) == EmptyRunsFrom(toks, 1)

\* lines 332-354: the rules in their order
structuralCleanup(toks, o) ==
  LET h1 == IF o.collapseBlankLines THEN CollapseBlankLines(toks) ELSE toks
      h2 == RemoveSpaceBetweenTags(h1)
      h3 == CollapseBrRuns(h2)
      h4 == NormalizeBlankParagraphs(h3)
      h5 == RemoveEmptyParagraphs(h4)
  IN  CollapseEmptyParagraphs(h5)

-----------------------------------------------------------------------------
(* DOMPurify.sanitize with the configuration of lines 358-367 *)

ALLOWED_TAGS == {"p", "br", "div", "span", "b", "strong", "i", "em", "u", "ul", "ol", "li"}

\* of an element that is removed DOMPurify keeps the content, except for the
\* tags whose content it forbids
ForbidContents == {"script", "style", "iframe", "noscript", "template"}

\* ALLOWED_ATTR is ['class']: every other attribute is removed
RECURSIVE PurifyNodes(_)
PurifyNodes(ns) ==
  IF ns = <<>> THEN <<>>
  ELSE LET n == Head(ns) IN
       IF n.kind = "text" THEN <<n>> \o PurifyNodes(Tail(ns))
       ELSE IF n.tag \in ALLOWED_TAGS
            THEN <<Element(n.tag, n.cls, "", {}, PurifyNodes(n.kids))>> \o PurifyNodes(Tail(ns))
       ELSE IF n.tag \in ForbidContents THEN PurifyNodes(Tail(ns))
       ELSE PurifyNodes(n.kids) \o PurifyNodes(Tail(ns))

DOMPurifySanitize(toks) == innerHTML(PurifyNodes(parseFromString(toks)))

\* lines 356-370
restrict(toks, hasDOMPurify) == IF hasDOMPurify THEN DOMPurifySanitize(toks) ELSE toks

sanitizeHtmlPreservingFormatting(toks, o, hasDOMPurify) ==
  restrict(structuralCleanup(innerHTML(sanitizeWalk(parseFromString(toks), o)), o),
           hasDOMPurify)

\* the editor serialized as it is, markers included
serializeEditor(root) == innerHTML(root)

\* clone, replace every marker of the clone by its text, serialize
getCleanHtmlFromEditor(root) == innerHTML(StripMarkers(root))

-----------------------------------------------------------------------------
(* Inputs *)

Flags == {"removeZeroWidth", "removeBidi", "normalizeSpaces", "collapseBlankLines",
          "expandLatinAbbrev"}

OptionSets == [Flags -> BOOLEAN]

BoundedSeq(S, n) == UNION {[1..m -> S] : m \in 0..n}

Br == Element("br", "", "", {}, <<>>)
P(childNodes) == Element("p", "", "", {}, childNodes)

\* editor content: one paragraph holding a text node or a bold run, alone or
\* followed by a line break, a bold run or a second text node
LiveChars == {"a", "ZWSP"}

LeafTexts == BoundedSeq(LiveChars, MaxLeaf) \ {<<>>}

Strong(c) == Element("strong", "", "", {}, <<TextNode(<<c>>)>>)

FirstInline == {TextNode(t) : t \in LeafTexts} \cup {Strong(c) : c \in LiveChars}

NextInline == {Br} \cup {Strong(c) : c \in LiveChars} \cup {TextNode(<<c>>) : c \in LiveChars}

Docs ==
  {<<P(<<a>>)>> : a \in FirstInline}
    \cup {<<P(<<a, b>>)>> : a \in FirstInline, b \in NextInline}

\* arguments of sanitizeTextContent
NormChars == {"e", "ACUTE", "ZWSP", " ", "EM", ";", "NBSP", "EN"}

ScenarioTexts ==
  { <<"A", " ", "EM", " ", "B">>,
    <<"e", ".", "g", ".", " ", "f", "o", "o">>,
    <<"v", "s", ".", "ACUTE">> }

NormTexts == BoundedSeq(NormChars, MaxText) \cup ScenarioTexts

\* bodies handed to the structural rules: up to MaxTop nodes, each a text node,
\* a line break, a paragraph, or an element the allowlist is there to remove
TopNodes ==
  { TextNode(<<"x">>), TextNode(<<" ">>), TextNode(<<"LF">>), Br,
    P(<<>>), P(<<Br>>), P(<<TextNode(<<" ">>)>>), P(<<TextNode(<<"h", "i">>)>>),
    Element("script", "", "", {}, <<TextNode(<<"x">>)>>),
    Element("p", "", "", {"onclick"}, <<TextNode(<<"x">>)>>),
    Element("a", "", "", {"href"}, <<TextNode(<<"x">>)>>) }

Bodies == BoundedSeq(TopNodes, MaxTop)

-----------------------------------------------------------------------------
(* The editor: handlers and the debounce timer *)

\* a scheduleHighlight that never cancels
keepTimer(active, handle) == active

\* clearTimeout(handle) on the set of active timers
clearTimeout(active, handle) == active \ {handle}

\* setTimeout returns a handle that identifies no active timer
FreeHandles(active) == (1..MaxTimers) \ active

\* scheduleHighlight()
scheduleHighlight ==
  /\ requests < MaxRequests
  /\ \E id \in FreeHandles(clearTimeout(timers, highlightTimer)) :
        /\ timers' = clearTimeout(timers, highlightTimer) \cup {id}
        /\ highlightTimer' = id
  /\ requests' = requests + 1

\* quill.on('text-change', scheduleHighlight): the editor now holds d
Edit ==
  /\ \E d \in Docs : tree' = d /\ plain' = TextOfNodes(d)
  /\ scheduleHighlight
  /\ UNCHANGED <<opts, domPurify, clipboard, output, textVars, markupVars, stage>>

\* the change listener of a checkbox
ToggleFlag ==
  /\ \E f \in Flags : opts' = [opts EXCEPT ![f] = ~@]
  /\ scheduleHighlight
  /\ UNCHANGED <<tree, plain, domPurify, clipboard, output, textVars, markupVars, stage>>

\* the timer set by scheduleHighlight fires: highlightProblemCharsInEditor runs
TimerFires ==
  /\ \E id \in timers : timers' = timers \ {id}
  /\ tree' = highlightProblemCharsInEditor(tree, opts)
  /\ requests' = 0
  /\ UNCHANGED <<opts, domPurify, clipboard, highlightTimer, plain, output, textVars, markupVars, stage>>

\* a click listener that strips the markers of the live tree, not of a clone
SanitizeClickInPlace ==
  /\ tree' = StripMarkers(tree)
  /\ output' = sanitizeHtmlPreservingFormatting(innerHTML(StripMarkers(tree)), opts, domPurify)
  /\ UNCHANGED <<highlightTimer, timers, requests, plain, opts, domPurify, clipboard,
                 textVars, markupVars, stage>>

\* the click listener of sanitizeBtn
SanitizeClick ==
  /\ output' = sanitizeHtmlPreservingFormatting(getCleanHtmlFromEditor(tree), opts, domPurify)
  /\ UNCHANGED <<overlayVars, opts, domPurify, clipboard, textVars, markupVars, stage>>

IdleHarness ==
  /\ text = <<>> /\ once = <<>> /\ twice = <<>>
  /\ html = <<>> /\ walked = <<>>
  /\ cleanedHtml = <<>> /\ recleanedHtml = <<>> /\ restrictedHtml = <<>>
  /\ stage = "none"

\* the page after the script has run: the initial scheduleHighlight() is pending
EditorInit ==
  /\ tree \in Docs
  /\ plain = TextOfNodes(tree)
  /\ opts \in OptionSets
  /\ highlightTimer \in 1..MaxTimers
  /\ timers = {highlightTimer}
  /\ requests = 1
  /\ output = <<>> /\ clipboard = <<>>

Init == EditorInit /\ domPurify = TRUE /\ IdleHarness

Next == Edit \/ ToggleFlag \/ TimerFires

Spec == Init /\ [][Next]_vars

\* the callback of the timer with handle id runs
FireTimer(id) ==
  /\ id \in timers /\ timers' = timers \ {id}
  /\ TimerFires

\* the same page, with the sanitize button in use, whether or not the
\* DOMPurify script has loaded
SanitizeInit == EditorInit /\ domPurify \in BOOLEAN /\ IdleHarness

SanitizeNext == ToggleFlag \/ TimerFires \/ SanitizeClick

SpecSanitize == SanitizeInit /\ [][SanitizeNext]_vars

\* the click listener of copyBtn: the contents of outputDiv are selected and
\* document.execCommand('copy') either copies the selection or reports failure
CopyClick ==
  /\ \/ clipboard' = output
     \/ clipboard' = clipboard
  /\ UNCHANGED <<overlayVars, opts, domPurify, output, textVars, markupVars, stage>>

\* the documents typed while the copy button is in use
CopyDocs == {<<P(<<TextNode(<<"a">>)>>)>>, <<P(<<TextNode(<<"a", "ZWSP">>)>>)>>}

EditCopyDocs == Edit /\ tree' \in CopyDocs

CopyInit == SanitizeInit /\ tree \in CopyDocs

CopyNext == EditCopyDocs \/ ToggleFlag \/ TimerFires \/ SanitizeClick \/ CopyClick

SpecCopy == CopyInit /\ [][CopyNext]_vars

\* the editor with its timer: a timer that stays armed fires after its 120 ms
FairInit == Init /\ tree \in CopyDocs

FairNext == EditCopyDocs \/ ToggleFlag \/ TimerFires

SpecFair ==
  /\ FairInit /\ [][FairNext]_vars
  /\ \A id \in 1..MaxTimers : WF_vars(FireTimer(id))

-----------------------------------------------------------------------------
(* sanitizeTextContent applied to a text, and to its own result *)

IdleEditor ==
  /\ tree = <<P(<<Br>>)>> /\ plain = <<>>
  /\ highlightTimer = 1 /\ timers = {1} /\ requests = 1
  /\ output = <<>> /\ clipboard = <<>>

NormalizeInit ==
  /\ IdleEditor /\ domPurify = TRUE
  /\ opts \in OptionSets
  /\ text \in NormTexts /\ once = <<>> /\ twice = <<>>
  /\ html = <<>> /\ walked = <<>>
  /\ cleanedHtml = <<>> /\ recleanedHtml = <<>> /\ restrictedHtml = <<>>
  /\ stage = "start"

Normalize ==
  /\ stage = "start"
  /\ once' = sanitizeTextContent(text, opts)
  /\ stage' = "once"
  /\ UNCHANGED <<overlayVars, opts, domPurify, clipboard, output, text, twice, markupVars>>

NormalizeAgain ==
  /\ stage = "once"
  /\ twice' = sanitizeTextContent(once, opts)
  /\ stage' = "twice"
  /\ UNCHANGED <<overlayVars, opts, domPurify, clipboard, output, text, once, markupVars>>

NormalizeNext == Normalize \/ NormalizeAgain

SpecNormalize == NormalizeInit /\ [][NormalizeNext]_vars

\* texts put together from the abbreviations of the table and their neighbours
MaxPieces == 3

AbbrevPieces ==
  { <<"e", ".", "g", ".">>, <<"i", ".", "e", ".">>, <<"e", "t", "c", ".">>,
    <<"v", "s", ".">>, <<"c", "f", ".">>, <<"e", "t", " ", "a", "l", ".">>,
    <<"x">>, <<" ">> }

RECURSIVE Concat(_)
Concat(ss) == IF ss = <<>> THEN <<>> ELSE Head(ss) \o Concat(Tail(ss))

AbbrevTexts == {Concat(ps) : ps \in BoundedSeq(AbbrevPieces, MaxPieces)}

AbbrevInit ==
  /\ IdleEditor /\ domPurify = TRUE
  /\ opts \in OptionSets
  /\ text \in AbbrevTexts /\ once = <<>> /\ twice = <<>>
  /\ html = <<>> /\ walked = <<>>
  /\ cleanedHtml = <<>> /\ recleanedHtml = <<>> /\ restrictedHtml = <<>>
  /\ stage = "start"

SpecAbbrev == AbbrevInit /\ [][NormalizeNext]_vars

\* texts of the characters the flags are about, with em dashes and semicolons
ClassChars == {"a", "ZWSP", "BOM", "RLE", "LRM", "NBSP", "EM", ";"}

ClassTexts == BoundedSeq(ClassChars, MaxText)

ClassInit ==
  /\ IdleEditor /\ domPurify = TRUE
  /\ opts \in OptionSets
  /\ text \in ClassTexts /\ once = <<>> /\ twice = <<>>
  /\ html = <<>> /\ walked = <<>>
  /\ cleanedHtml = <<>> /\ recleanedHtml = <<>> /\ restrictedHtml = <<>>
  /\ stage = "start"

SpecClasses == ClassInit /\ [][NormalizeNext]_vars

-----------------------------------------------------------------------------
(* The markup pipeline applied to a serialized body *)

MarkupInit ==
  /\ IdleEditor /\ domPurify \in BOOLEAN
  /\ opts \in OptionSets
  /\ text = <<>> /\ once = <<>> /\ twice = <<>>
  /\ html \in {innerHTML(b) : b \in Bodies}
  /\ walked = <<>>
  /\ cleanedHtml = <<>> /\ recleanedHtml = <<>> /\ restrictedHtml = <<>>
  /\ stage = "start"

\* lines 332-354 on doc.body.innerHTML
Cleanup ==
  /\ stage = "start"
  /\ cleanedHtml' = structuralCleanup(html, opts)
  /\ stage' = "cleaned"
  /\ UNCHANGED <<overlayVars, opts, domPurify, clipboard, output, textVars, html, walked, recleanedHtml,
                 restrictedHtml>>

CleanupAgain ==
  /\ stage = "cleaned"
  /\ recleanedHtml' = structuralCleanup(cleanedHtml, opts)
  /\ stage' = "recleaned"
  /\ UNCHANGED <<overlayVars, opts, domPurify, clipboard, output, textVars, html, walked, cleanedHtml,
                 restrictedHtml>>

\* the whole of sanitizeHtmlPreservingFormatting(html, options)
Sanitize ==
  /\ stage = "start"
  /\ restrictedHtml' = sanitizeHtmlPreservingFormatting(html, opts, domPurify)
  /\ stage' = "restricted"
  /\ UNCHANGED <<overlayVars, opts, domPurify, clipboard, output, textVars, html, walked, cleanedHtml,
                 recleanedHtml>>

MarkupNext == Cleanup \/ CleanupAgain \/ Sanitize

SpecMarkup == MarkupInit /\ [][MarkupNext]_vars

-----------------------------------------------------------------------------
(* The text walk of sanitizeHtmlPreservingFormatting on a parsed body *)

MaxWalk == 2

WalkTexts == {<<"a">>, <<"a", "EM", "b">>, <<"e", "ACUTE">>, <<"e", "ZWSP", "ACUTE">>}

WalkNodes ==
  {TextNode(t) : t \in WalkTexts}
    \cup {P(<<TextNode(t)>>) : t \in WalkTexts}
    \cup {P(<<TextNode(t), Element("strong", "", "", {}, <<TextNode(u)>>), TextNode(t)>>) :
            t \in {<<"a">>, <<"a", "EM", "b">>}, u \in WalkTexts}
    \cup {P(<<Br>>)}

WalkBodies == BoundedSeq(WalkNodes, MaxWalk)

WalkInit ==
  /\ IdleEditor /\ domPurify = TRUE
  /\ opts \in OptionSets
  /\ text = <<>> /\ once = <<>> /\ twice = <<>>
  /\ html \in {innerHTML(b) : b \in WalkBodies}
  /\ walked = <<>>
  /\ cleanedHtml = <<>> /\ recleanedHtml = <<>> /\ restrictedHtml = <<>>
  /\ stage = "start"

\* lines 315-328: the body is parsed and walk(doc.body) rewrites its text
Walk ==
  /\ stage = "start"
  /\ walked' = sanitizeWalk(parseFromString(html), opts)
  /\ stage' = "walked"
  /\ UNCHANGED <<overlayVars, opts, domPurify, clipboard, output, textVars, html,
                 cleanedHtml, recleanedHtml, restrictedHtml>>

WalkNext == Walk

SpecWalk == WalkInit /\ [][WalkNext]_vars

-----------------------------------------------------------------------------
(* Properties *)

Range(f) == {f[i] : i \in DOMAIN f}

Count(s, ch) == Cardinality({i \in 1..Len(s) : s[i] = ch})

\* every marker node of the nodes ns, at any depth
RECURSIVE MarkersIn(_)
MarkersIn(ns) ==
  UNION {(IF IsMarker(ns[i]) THEN {ns[i]} ELSE {}) \cup MarkersIn(ns[i].kids) : i \in 1..Len(ns)}

RECURSIVE CountMarkers(_)
CountMarkers(ns) ==
  IF ns = <<>> THEN 0
  ELSE (IF IsMarker(Head(ns)) THEN 1 ELSE 0) + CountMarkers(Head(ns).kids)
         + CountMarkers(Tail(ns))

HasNestedMarker(ns) == \E m \in MarkersIn(ns) : MarkersIn(m.kids) # {}

IsMarkerToken(t) == t.k = "open" /\ t.cls = HighlightClass

HasMarkerToken(toks) == \E i \in 1..Len(toks) : IsMarkerToken(toks[i])

\* C1: the text of the tree, read in document order, is the text it had when it
\* was last edited, whatever passes have run since; it stays so when the markers
\* are cleared, and when one more pass runs and its markers are cleared.
C1_TextSurvivesMarking ==
  /\ TextOfNodes(tree) = plain
  /\ TextOfNodes(clearHighlightsInEditor(tree)) = plain
  /\ TextOfNodes(clearHighlightsInEditor(highlightProblemCharsInEditor(tree, opts))) = plain

\* a pass has marked a text that holds a clean and a flagged character
C1_Witness ==
  /\ requests = 0
  /\ CountMarkers(tree) > 0
  /\ {"a", "ZWSP"} \subseteq Range(plain)

\* C2: after any passes no marker lies inside another marker, and there are no
\* more markers than characters of text.
C2_MarkersNeverNest ==
  /\ ~HasNestedMarker(tree)
  /\ CountMarkers(tree) <= Len(TextOfNodes(tree))

\* C3: what sanitizeHtmlPreservingFormatting returns holds no tag outside the
\* allowlist and no attribute other than class.
C3_OnlyAllowlisted ==
  stage = "restricted" =>
    \A i \in 1..Len(restrictedHtml) :
      restrictedHtml[i].k # "char" =>
        /\ restrictedHtml[i].name \in ALLOWED_TAGS
        /\ restrictedHtml[i].attrs = {}
        /\ restrictedHtml[i].title = ""

\* C4: the structural rules applied to their own output change nothing.
C4_CleanupIdempotent == stage = "recleaned" => recleanedHtml = cleanedHtml

\* C5: sanitizeTextContent applied to its own result changes nothing.
C5_NormalizeIdempotent == stage = "twice" => twice = once

NoDoubleSpaceAfterSemicolon(s) ==
  \A i \in 1..Len(s) :
    (s[i] = ";" /\ i + 2 <= Len(s)) => ~(s[i + 1] \in WhiteSpace /\ s[i + 2] \in WhiteSpace)

\* C6: the normalized text holds no em dash, one semicolon for every em dash
\* and every semicolon of the input, no semicolon followed by more than one
\* white-space character, and "A — B" becomes "A; B".
C6_EmDashBecomesSemicolon ==
  stage # "start" =>
    /\ "EM" \notin Range(once)
    /\ Count(once, ";") = Count(text, ";") + Count(text, "EM")
    /\ NoDoubleSpaceAfterSemicolon(once)
    /\ (text = <<"A", " ", "EM", " ", "B">> => once = <<"A", ";", " ", "B">>)

C6_Witness ==
  /\ stage = "once"
  /\ text = <<"A", " ", "EM", " ", "B">>
  /\ once = <<"A", ";", " ", "B">>

\* C7: at most one timer is pending, it is the one of the latest request, one is
\* pending exactly when a request has not been followed by a pass, and a pass is
\* run by the timer of the latest request and leaves no timer pending.
C7_DebounceLatestWins ==
  /\ [](/\ Cardinality(timers) <= 1
        /\ timers \subseteq {highlightTimer}
        /\ (requests > 0 <=> timers # {}))
  /\ [][(requests > 0 /\ requests' = 0) => (timers = {highlightTimer} /\ timers' = {})]_vars

\* several requests have arrived and one timer is pending
C7_Witness == requests >= 2 /\ Cardinality(timers) = 1

\* C8: in every state of the live tree the markup read for sanitization holds
\* no marker, and neither does the sanitized output.
C8_NoMarkerLeavesEditor ==
  /\ ~HasMarkerToken(getCleanHtmlFromEditor(tree))
  /\ ~HasMarkerToken(output)

\* the button was pressed while the tree held a marker inside a marker
C8_Witness ==
  /\ HasNestedMarker(tree)
  /\ output # <<>>
  /\ output = sanitizeHtmlPreservingFormatting(getCleanHtmlFromEditor(tree), opts, domPurify)

ScenarioMarkup ==
  innerHTML(<<P(<<TextNode(<<"h", "i">>)>>), P(<<Br>>), P(<<>>)>>)

\* C9: "<p>hi</p><p><br></p><p></p>" with collapseBlankLines on is cleaned to
\* "<p>hi</p><p></p>".
C9_OneEmptyParagraphKept ==
  (stage = "cleaned" /\ html = ScenarioMarkup /\ opts.collapseBlankLines) =>
    cleanedHtml = innerHTML(<<P(<<TextNode(<<"h", "i">>)>>), P(<<>>)>>)

ZwspMarkers(ns) == {m \in MarkersIn(ns) : textContent(m) = <<"ZWSP">>}

\* C10 as stated: with removeZeroWidth off, the marker a pass puts around a
\* zero-width space is labelled "Zero-width character".
C10_LabelWhenFlagOff ==
  (requests = 0 /\ ~opts.removeZeroWidth) =>
    \A m \in ZwspMarkers(tree) : m.title = "Zero-width character"

\* C10 amended: with removeZeroWidth on, the normalized text holds no zero-width
\* space; after a pass a marker around a zero-width space is labelled
\* "Zero-width character" with the flag on and "Non-ASCII character" with it off;
\* clearing leaves no marker and the text as it was.
C10_ZeroWidthSpace ==
  /\ opts.removeZeroWidth => "ZWSP" \notin Range(sanitizeTextContent(plain, opts))
  /\ requests = 0 =>
       \A m \in ZwspMarkers(tree) :
         m.title = IF opts.removeZeroWidth THEN "Zero-width character"
                   ELSE "Non-ASCII character"
  /\ MarkersIn(clearHighlightsInEditor(tree)) = {}
  /\ TextOfNodes(clearHighlightsInEditor(tree)) = plain

\* a pass with the flag off has wrapped a zero-width space
C10_Witness ==
  /\ requests = 0
  /\ ~opts.removeZeroWidth
  /\ \E m \in ZwspMarkers(tree) : m.title = "Non-ASCII character"

\* C11: the content a copy request places on the clipboard is the sanitized
\* form of the document tree as it is at that request: the clean markup of
\* the tree run through the whole pipeline under the current options.
C11_CopyIsSanitizedTree ==
  [][clipboard' # clipboard =>
       clipboard' = sanitizeHtmlPreservingFormatting(getCleanHtmlFromEditor(tree),
                                                     opts, domPurify)]_vars
\* the elements of a forest, with the data of every text leaf blanked
RECURSIVE Skeleton(_)
Skeleton(ns) ==
  [i \in 1..Len(ns) |->
     IF ns[i].kind = "text" THEN TextNode(<<>>)
     ELSE [ns[i] EXCEPT !.kids = Skeleton(@)]]

\* the data of the text leaves of a forest, in document order
RECURSIVE LeafData(_)
LeafData(ns) ==
  IF ns = <<>> THEN <<>>
  ELSE (IF Head(ns).kind = "text" THEN <<Head(ns).data>> ELSE LeafData(Head(ns).kids))
         \o LeafData(Tail(ns))

\* C12: the normalization walk rewrites every text leaf exactly once, in
\* document order, and replaces nothing but text: the number, nesting, order,
\* tag and attributes of the elements are those of the parsed body.
C12_WalkKeepsElements ==
  stage = "walked" =>
    LET body == parseFromString(html) IN
      /\ Skeleton(walked) = Skeleton(body)
      /\ LeafData(walked) =
           [i \in 1..Len(LeafData(body)) |-> sanitizeTextContent(LeafData(body)[i], opts)]

\* a body with text at several depths, some of it rewritten by the walk
C12_Witness ==
  /\ stage = "walked"
  /\ Len(LeafData(walked)) >= 3
  /\ \E i \in 1..Len(walked) :
        /\ walked[i].kind = "elem"
        /\ LeafData(walked[i].kids) # LeafData(parseFromString(html)[i].kids)
\* the abbreviations and their expansions, as written in a text
AbbrevTable ==
  << [token |-> <<"e", ".", "g", ".">>,
      expansion |-> <<"f", "o", "r", " ", "e", "x", "a", "m", "p", "l", "e">>],
     [token |-> <<"i", ".", "e", ".">>,
      expansion |-> <<"t", "h", "a", "t", " ", "i", "s">>],
     [token |-> <<"e", "t", "c", ".">>,
      expansion |-> <<"a", "n", "d", " ", "s", "o", " ", "o", "n">>],
     [token |-> <<"v", "s", ".">>,
      expansion |-> <<"v", "e", "r", "s", "u", "s">>],
     [token |-> <<"c", "f", ".">>,
      expansion |-> <<"c", "o", "m", "p", "a", "r", "e">>],
     [token |-> <<"e", "t", " ", "a", "l", ".">>,
      expansion |-> <<"a", "n", "d", " ", "o", "t", "h", "e", "r", "s">>] >>

\* the token stands in s at i and no word character precedes it
TokenAt(s, i, token) ==
  /\ i + Len(token) - 1 <= Len(s)
  /\ SubSeq(s, i, i + Len(token) - 1) = token
  /\ (i = 1 \/ s[i - 1] \notin WordChars)

TokenCount(s, token) == Cardinality({i \in 1..Len(s) : TokenAt(s, i, token)})

RECURSIVE GrowthFrom(_, _)
GrowthFrom(s, k) ==
  IF k > Len(AbbrevTable) THEN 0
  ELSE (Len(AbbrevTable[k].expansion) - Len(AbbrevTable[k].token))
          * TokenCount(s, AbbrevTable[k].token)
        + GrowthFrom(s, k + 1)

\* C13: with expandLatinAbbrev on, every whole-token occurrence of e.g., i.e.,
\* etc., vs., cf. and et al. (one that no word character precedes) is replaced
\* by its expansion, the table applied in order ("e.g. x" becomes
\* "for example x"): no token is left, a token on its own becomes its
\* expansion and the text grows by what the expansions add. With the flag off
\* the tokens and the text around them are unchanged.
C13_AbbreviationsExpanded ==
  stage # "start" =>
    IF opts.expandLatinAbbrev
    THEN /\ \A k \in 1..Len(AbbrevTable) :
              /\ TokenCount(once, AbbrevTable[k].token) = 0
              /\ text = AbbrevTable[k].token => once = AbbrevTable[k].expansion
              /\ text = AbbrevTable[k].token \o <<" ", "x">>
                    => once = AbbrevTable[k].expansion \o <<" ", "x">>
         /\ Len(once) = Len(text) + GrowthFrom(text, 1)
    ELSE once = text

\* every text leaf outside a marker holds clean characters only, and every
\* marker wraps one character under the label of its class
RECURSIVE EveryCharClassified(_, _)
EveryCharClassified(ns, o) ==
  \A i \in 1..Len(ns) :
    IF ns[i].kind = "text" THEN \A j \in 1..Len(ns[i].data) : LabelOf(ns[i].data[j], o) = ""
    ELSE IF IsMarker(ns[i])
         THEN /\ Len(ns[i].kids) = 1 /\ ns[i].kids[1].kind = "text"
              /\ Len(ns[i].kids[1].data) = 1
              /\ ns[i].title = LabelOf(ns[i].kids[1].data[1], o)
              /\ ns[i].title # ""
         ELSE EveryCharClassified(ns[i].kids, o)

\* C14: after one highlight pass every character of every text leaf is
\* wrapped in its own marker, labelled with its reason, if and only if its
\* class is not clean, also in a leaf that follows a rewritten sibling.
C14_EveryLeafMarked ==
  requests = 0 => EveryCharClassified(tree, opts)

\* C15: Idle -> Pending -> Rendering -> Idle. Once requests stop, a pending
\* request is followed by a pass; the pass clears every marker of the pass
\* before it inserts its own, so each marker left by it carries the label the
\* current options give its character; and after the pass no timer is pending
\* until the next request.
C15_RequestThenOnePass ==
  /\ (requests > 0) ~> (requests = 0)
  /\ [](requests = 0 =>
          /\ timers = {}
          /\ \A m \in MarkersIn(tree) :
                /\ Len(textContent(m)) = 1
                /\ m.title = LabelOf(textContent(m)[1], opts))
  /\ [][(requests = 0 /\ timers' # {}) => requests' = 1]_vars

\* Idle again after a pass: no timer is pending and the tree holds markers
\* labelled under the current options
C15_Witness ==
  /\ requests = 0 /\ timers = {}
  /\ opts.removeZeroWidth
  /\ \E m \in MarkersIn(tree) : m.title = "Zero-width character"

\* after is before with a text node of one character where before has a
\* marker, that character being the marker's text, and nothing else changed
RECURSIVE ReplacedInPlace(_, _)
ReplacedInPlace(before, after) ==
  /\ Len(after) = Len(before)
  /\ \A i \in 1..Len(before) :
        IF IsMarker(before[i])
        THEN /\ after[i].kind = "text"
             /\ Len(after[i].data) = 1
             /\ after[i].data = textContent(before[i])
        ELSE IF before[i].kind = "elem"
             THEN /\ after[i].kind = "elem"
                  /\ [after[i] EXCEPT !.kids = <<>>] = [before[i] EXCEPT !.kids = <<>>]
                  /\ ReplacedInPlace(before[i].kids, after[i].kids)
             ELSE after[i] = before[i]

\* C16: clearHighlightsInEditor leaves no marker in the tree, nested markers
\* included, and puts in the place of each marker it removes a plain text
\* node that carries the marker's character.
C16_ClearRemovesEveryMarker ==
  LET cleared == clearHighlightsInEditor(tree) IN
    /\ CountMarkers(cleared) = 0
    /\ ReplacedInPlace(tree, cleared)

\* the tree the next pass clears holds a marker inside a marker
C16_Witness ==
  /\ requests > 0 /\ timers # {}
  /\ HasNestedMarker(tree)
  /\ CountMarkers(tree) > CountMarkers(clearHighlightsInEditor(tree))

\* the characters of s that are in S, in their order
Filter(s, S) == SelectSeq(s, LAMBDA c : c \in S)

\* the classes whose flag is off
ClassesOff(o) ==
  (IF o.removeZeroWidth THEN {} ELSE ZeroWidthChars)
    \cup (IF o.removeBidi THEN {} ELSE BidiRemovedChars)
    \cup (IF o.normalizeSpaces THEN {} ELSE NbspChars)

KeptOff(t, o) ==
  IF "EM" \in Range(t) \/ ";" \in Range(t) THEN ClassesOff(o) \ WhiteSpace
  ELSE ClassesOff(o)

PreviewLabels == {"Zero-width character", "BiDi / Direction marker", "Non-breaking space"}

\* C18: the overlay previews sanitization: a character that a highlight pass
\* over a paragraph holding the text labels as zero-width, BiDi / direction
\* marker or non-breaking space does not appear in the text normalized under
\* the same options.
C18_LabelledIsNormalized ==
  stage # "start" =>
    \A m \in MarkersIn(highlightProblemCharsInEditor(<<P(<<TextNode(text)>>)>>, opts)) :
      m.title \in PreviewLabels => Range(textContent(m)) \cap Range(once) = {}

\* C19: a sanitize request reads the live tree and writes the output only:
\* the tree with its markers, the pending timer and its handle, and the count
\* of highlight requests are what they were, whether a pass is pending or not.
C19_SanitizeLeavesOverlay ==
  [][output' # output => UNCHANGED <<tree, highlightTimer, timers, requests, opts>>]_vars

\* the button was pressed while markers were shown and a timer was armed
C19_Witness ==
  /\ CountMarkers(tree) > 0
  /\ requests > 0 /\ timers = {highlightTimer}
  /\ output # <<>>
  /\ output = sanitizeHtmlPreservingFormatting(getCleanHtmlFromEditor(tree), opts, domPurify)
====
